---------------------------- MODULE Spec2Model ----------------------------
(***************************************************************************)
(* Model of my_dashboard.py: a Streamlit script that loads Superstore.csv  *)
(* through a cached loader, offers two dropdown filters (Region, Category) *)
(* built from the loaded table, filters a copy of the table and shows      *)
(* three summary numbers for a non-empty result.                           *)
(*                                                                         *)
(* Streamlit re-executes the whole script on every interaction; one run of *)
(* the script is modelled as the steps                                     *)
(*   get_data  ->  build filters  ->  apply filters  ->  display results   *)
(* or get_data -> warning when the load failed.  The st.cache_data store   *)
(* and the file on disk live across runs; the script's variables do not.   *)
(*                                                                         *)
(* Numbers: Sales and Profit are whole amounts, Discount and the average   *)
(* discount are exact rationals <<numerator, denominator>>; floating-point *)
(* rounding is not modelled.                                               *)
(***************************************************************************)
EXTENDS Integers, Sequences, FiniteSets, TLC

VARIABLES
    file,             \* content of Superstore.csv on disk, or NotFound
    cache,            \* st.cache_data store of get_data: file_path -> result
    reads,            \* number of executions of pd.read_csv
    runs,             \* number of script runs started
    changes,          \* number of changes made to the file on disk
    pc,               \* position of the current script run
    store_data,       \* script variable store_data
    region_options,   \* script variable region_options
    category_options, \* script variable category_options
    chosen_region,    \* script variable chosen_region
    chosen_category,  \* script variable chosen_category
    filtered_data,    \* script variable filtered_data
    summary,          \* sum_sales, sum_profit, avg_discount_perc of this run
    screen            \* elements shown by the current run, in order

vars == <<file, cache, reads, runs, changes, pc, store_data, region_options,
          category_options, chosen_region, chosen_category, filtered_data,
          summary, screen>>

scriptVars == <<region_options, category_options, chosen_region,
                chosen_category, filtered_data, summary>>

-----------------------------------------------------------------------------
(* Bounds *)

MaxRows == 3

MaxRuns == 2

MaxChanges == 1

-----------------------------------------------------------------------------
(* Values *)

None == [type |-> "NoneType"]      \* Python None
NotFound == [type |-> "NotFound"]  \* no file at the path
CsvFile(lines) == [type |-> "csv", rows |-> lines]
DataFrame(rs) == [type |-> "DataFrame", rows |-> rs]
Unset == [type |-> "Unset"]        \* a DataFrame or summary name not bound in this run
UnsetStr == "<unset>"              \* a string name not bound in this run
UnsetList == <<>>                  \* a list name not bound in this run
NaT == [type |-> "NaT"]            \* pandas null date
NaN == <<0, 0>>                    \* float nan: no rational has denominator 0

file_path == "Superstore.csv"

All == "All"

\* Code-point order of the strings of the model, as Python's sorted() uses:
\* upper-case letters come before lower-case ones.
StrRank ==
    [s \in {"East", "Furniture", "Technology", "West", "west"} |->
        CASE s = "East" -> 1
          [] s = "Furniture" -> 2
          [] s = "Technology" -> 3
          [] s = "West" -> 4
          [] s = "west" -> 5]

\* str.lower() on the strings of the model.
Lower(s) == IF s = "West" THEN "west" ELSE s

-----------------------------------------------------------------------------
(* Exact rational arithmetic for the float columns *)

RECURSIVE GCD(_, _)
GCD(a, b) == IF b = 0 THEN a ELSE GCD(b, a % b)

Abs(x) == IF x < 0 THEN -x ELSE x

\* the rational n/d in lowest terms, d > 0
Rat(n, d) ==
    LET g == GCD(Abs(n), Abs(d))
        s == IF d < 0 THEN -1 ELSE 1
    IN  <<(s * n) \div g, (s * d) \div g>>

RatAdd(x, y) == Rat(x[1] * y[2] + y[1] * x[2], x[2] * y[2])

RatMulInt(x, k) == Rat(x[1] * k, x[2])

RatDivInt(x, k) == Rat(x[1], x[2] * k)

RatLeq(x, y) == x[1] * y[2] <= y[1] * x[2]

-----------------------------------------------------------------------------
(* The file: lines of Superstore.csv under the header row *)

\* an Order Date cell: three numbers written with a separator
DateText(sep, a, b, c) == [sep |-> sep, a |-> a, b |-> b, c |-> c]

CsvLine(region, category, date, sales, profit, discount) ==
    [Region |-> region, Category |-> category, OrderDate |-> date,
     Sales |-> sales, Profit |-> profit, Discount |-> discount]

\* the two rows of the documented scenario
WestRow == CsvLine("West", "Furniture", DateText("/", 1, 15, 2024), 100, 10, <<1, 10>>)
EastRow == CsvLine("East", "Furniture", DateText("/", 2, 29, 2023), 200, 40, <<1, 5>>)

SampleLines ==
    { WestRow,
      EastRow,
      CsvLine("west", "Technology", DateText("-", 2024, 13, 40), 50, -5, <<1, 1>>),
      CsvLine("West", "Technology", DateText("/", 12, 31, 2023), 0, 0, <<0, 1>>),
      CsvLine("East", "Technology", DateText("/", 2, 29, 2024), 300, -20, <<3, 2>>),
      CsvLine("west", "Furniture", DateText("/", 13, 1, 2024), 100, 10, <<1, 10>>) }

SeqsUpTo(S, n) == UNION { [1..k -> S] : k \in 0..n }

Files == {NotFound} \cup { CsvFile(ls) : ls \in SeqsUpTo(SampleLines, MaxRows) }

-----------------------------------------------------------------------------
(* get_data: pd.read_csv and pd.to_datetime *)

IsLeap(y) == (y % 4 = 0 /\ y % 100 # 0) \/ y % 400 = 0

DaysInMonth(m, y) ==
    IF m = 2 THEN (IF IsLeap(y) THEN 29 ELSE 28)
    ELSE IF m \in {4, 6, 9, 11} THEN 30 ELSE 31

\* pd.to_datetime(..., format='%m/%d/%Y', errors='coerce') on one cell
to_datetime(t) ==
    IF /\ t.sep = "/"
       /\ t.a \in 1..12
       /\ t.c \in 1..9999
       /\ t.b \in 1..DaysInMonth(t.a, t.c)
    THEN [year |-> t.c, month |-> t.a, day |-> t.b]
    ELSE NaT

\* pd.read_csv followed by the Order Date conversion: row i of the file gets
\* index label i-1 (a RangeIndex) and a parsed date
read_csv(lines) ==
    [i \in 1..Len(lines) |->
        [idx |-> i - 1,
         Region |-> lines[i].Region,
         Category |-> lines[i].Category,
         OrderDate |-> to_datetime(lines[i].OrderDate),
         Sales |-> lines[i].Sales,
         Profit |-> lines[i].Profit,
         Discount |-> lines[i].Discount]]

\* a slip: an empty table instead of None for a missing file
get_dataEmptyOnMissing(f) ==
    IF f = NotFound THEN DataFrame(<<>>) ELSE DataFrame(read_csv(f.rows))

\* the body of get_data on a cache miss
get_data(f) == IF f = NotFound THEN None ELSE DataFrame(read_csv(f.rows))

\* a slip: the decorator left out, nothing is ever stored
IsCachedNever(path) == FALSE

\* st.cache_data: is a result stored for this argument?
IsCached(path) == path \in DOMAIN cache

\* the st elements get_data shows; st.cache_data replays them on a hit
LoaderElements(result) == IF result = None THEN <<"error", "info">> ELSE <<>>

-----------------------------------------------------------------------------
(* Filters: unique(), sorted(), ==, boolean indexing *)

\* Series.unique(): the distinct values in order of first appearance
RECURSIVE unique(_, _)
unique(rows, col) ==
    IF rows = <<>> THEN <<>>
    ELSE LET n == Len(rows)
             front == unique(SubSeq(rows, 1, n - 1), col)
             v == rows[n][col]
         IN  IF \E i \in 1..Len(front) : front[i] = v THEN front
             ELSE Append(front, v)

\* insert v in an ascending sequence
RECURSIVE Insert(_, _)
Insert(s, v) ==
    IF s = <<>> THEN <<v>>
    ELSE IF StrRank[v] < StrRank[Head(s)] THEN <<v>> \o s
         ELSE <<Head(s)>> \o Insert(Tail(s), v)

\* sorted(): ascending by code point
RECURSIVE sorted(_)
sorted(s) == IF s = <<>> THEN <<>> ELSE Insert(sorted(Tail(s)), Head(s))

AllDomain(col) ==
    IF col = "Region" THEN <<"East", "West", "west">>
    ELSE <<"Furniture", "Technology">>

\* a slip: a fixed list of options instead of the values of the table
OptionsFixed(rows, col) == <<All>> \o AllDomain(col)

\* ['All'] + sorted(store_data[col].unique())
Options(rows, col) == <<All>> \o sorted(unique(rows, col))

\* a slip: comparison ignoring case
StrEqNoCase(a, b) == Lower(a) = Lower(b)

\* == on two strings
StrEq(a, b) == a = b

\* df[col] == v : one boolean per row
Mask(rows, col, v) == [i \in 1..Len(rows) |-> StrEq(rows[i][col], v)]

\* df[mask] : the rows whose boolean is True, in order, index labels kept
RECURSIVE BoolIndex(_, _)
BoolIndex(rows, mask) ==
    IF rows = <<>> THEN <<>>
    ELSE LET n == Len(rows)
             front == BoolIndex(SubSeq(rows, 1, n - 1), SubSeq(mask, 1, n - 1))
         IN  IF mask[n] THEN Append(front, rows[n]) ELSE front

FilterBy(rows, col, v) == BoolIndex(rows, Mask(rows, col, v))

\* a slip: the sentinel is filtered on like any value
IsConstrainedAlways(chosen) == TRUE

\* chosen != 'All'
IsConstrained(chosen) == chosen # All

\* DataFrame.copy()
Copy(df) == DataFrame(df.rows)

-----------------------------------------------------------------------------
(* Summary: Series.sum(), Series.mean() *)

RECURSIVE SumInt(_, _)
SumInt(rows, col) ==
    IF rows = <<>> THEN 0 ELSE rows[1][col] + SumInt(Tail(rows), col)

RECURSIVE SumRat(_, _)
SumRat(rows, col) ==
    IF rows = <<>> THEN <<0, 1>> ELSE RatAdd(rows[1][col], SumRat(Tail(rows), col))

\* a slip: sum() where mean() is meant
MeanAsSum(rows, col) == IF rows = <<>> THEN NaN ELSE SumRat(rows, col)

\* Series.mean(): nan for an empty Series
Mean(rows, col) ==
    IF rows = <<>> THEN NaN ELSE RatDivInt(SumRat(rows, col), Len(rows))

\* a slip: the fraction shown without the factor
Times100Dropped(x) == x

\* x * 100 on a float
Times100(x) == IF x = NaN THEN NaN ELSE RatMulInt(x, 100)

\* a slip: the emptiness test left out
EmptyNever(df) == FALSE

\* DataFrame.empty
Empty(df) == Len(df.rows) = 0

Summarize(df) ==
    [type |-> "summary",
     sum_sales |-> SumInt(df.rows, "Sales"),
     sum_profit |-> SumInt(df.rows, "Profit"),
     avg_discount_perc |-> Times100(Mean(df.rows, "Discount"))]

-----------------------------------------------------------------------------
(* The state machine *)

Init ==
    /\ file \in Files
    /\ cache = <<>>
    /\ reads = 0
    /\ runs = 0
    /\ changes = 0
    /\ pc = "idle"
    /\ store_data = Unset
    /\ region_options = UnsetList
    /\ category_options = UnsetList
    /\ chosen_region = UnsetStr
    /\ chosen_category = UnsetStr
    /\ filtered_data = Unset
    /\ summary = Unset
    /\ screen = <<>>

\* a new run of the script binds its names afresh
FreshRun ==
    /\ runs' = runs + 1
    /\ region_options' = UnsetList
    /\ category_options' = UnsetList
    /\ chosen_region' = UnsetStr
    /\ chosen_category' = UnsetStr
    /\ filtered_data' = Unset
    /\ summary' = Unset

\* store_data = get_data('Superstore.csv') answered from the cache; then the
\* title and the introduction
GetDataCached ==
    /\ pc = "idle"
    /\ runs < MaxRuns
    /\ IsCached(file_path)
    /\ FreshRun
    /\ store_data' = cache[file_path]
    /\ screen' = LoaderElements(cache[file_path]) \o <<"title", "write">>
    /\ pc' = "loaded"
    /\ UNCHANGED <<file, cache, reads, changes>>

\* store_data = get_data('Superstore.csv') running the function: the file is
\* there, it is read and the table is stored in the cache
GetDataRead ==
    /\ pc = "idle"
    /\ runs < MaxRuns
    /\ ~IsCached(file_path)
    /\ file # NotFound
    /\ FreshRun
    /\ reads' = reads + 1
    /\ store_data' = get_data(file)
    /\ cache' = (file_path :> get_data(file)) @@ cache
    /\ screen' = LoaderElements(get_data(file)) \o <<"title", "write">>
    /\ pc' = "loaded"
    /\ UNCHANGED <<file, changes>>

\* store_data = get_data('Superstore.csv') running the function: read_csv
\* raises FileNotFoundError, the function returns None, which is stored too
GetDataNotFound ==
    /\ pc = "idle"
    /\ runs < MaxRuns
    /\ ~IsCached(file_path)
    /\ file = NotFound
    /\ FreshRun
    /\ reads' = reads + 1
    /\ store_data' = get_data(file)
    /\ cache' = (file_path :> get_data(file)) @@ cache
    /\ screen' = LoaderElements(get_data(file)) \o <<"title", "write">>
    /\ pc' = "loaded"
    /\ UNCHANGED <<file, changes>>

\* else: st.warning(...), the end of the run
LoadFailed ==
    /\ pc = "loaded"
    /\ store_data = None
    /\ screen' = Append(screen, "warning")
    /\ pc' = "idle"
    /\ UNCHANGED <<file, cache, reads, runs, changes, store_data, scriptVars>>

\* the sidebar: both option lists and the two selectboxes, each returning one
\* of its options
BuildFilters ==
    /\ pc = "loaded"
    /\ store_data # None
    /\ region_options' = Options(store_data.rows, "Region")
    /\ category_options' = Options(store_data.rows, "Category")
    /\ \E i \in 1..Len(region_options') : chosen_region' = region_options'[i]
    /\ \E i \in 1..Len(category_options') : chosen_category' = category_options'[i]
    /\ screen' = screen \o <<"sidebar.header", "selectbox", "selectbox">>
    /\ pc' = "chosen"
    /\ UNCHANGED <<file, cache, reads, runs, changes, store_data,
                   filtered_data, summary>>

\* the table after the Region step
AfterRegion(df, region) ==
    IF IsConstrained(region)
    THEN DataFrame(FilterBy(df.rows, "Region", region))
    ELSE df

\* the table after the Category step
AfterCategory(df, category) ==
    IF IsConstrained(category)
    THEN DataFrame(FilterBy(df.rows, "Category", category))
    ELSE df

\* a slip: both steps filter store_data itself and rebind it
ApplyFiltersInPlace ==
    /\ pc = "chosen"
    /\ store_data' = AfterCategory(AfterRegion(store_data, chosen_region),
                                   chosen_category)
    /\ filtered_data' = store_data'
    /\ pc' = "filtered"
    /\ UNCHANGED <<file, cache, reads, runs, changes, region_options,
                   category_options, chosen_region, chosen_category,
                   summary, screen>>

\* a slip: the Category step starts again from store_data
ApplyFiltersRestart ==
    /\ pc = "chosen"
    /\ filtered_data' =
          IF IsConstrained(chosen_category)
          THEN AfterCategory(Copy(store_data), chosen_category)
          ELSE AfterRegion(Copy(store_data), chosen_region)
    /\ pc' = "filtered"
    /\ UNCHANGED <<file, cache, reads, runs, changes, store_data,
                   region_options, category_options, chosen_region,
                   chosen_category, summary, screen>>

\* filtered_data = store_data.copy(), then the Region step, then the
\* Category step
ApplyFilters ==
    /\ pc = "chosen"
    /\ filtered_data' = AfterCategory(AfterRegion(Copy(store_data), chosen_region),
                                      chosen_category)
    /\ pc' = "filtered"
    /\ UNCHANGED <<file, cache, reads, runs, changes, store_data,
                   region_options, category_options, chosen_region,
                   chosen_category, summary, screen>>

\* the header, the count, the table, and for a table with rows the three
\* summary numbers; the end of the run
DisplayResults ==
    /\ pc = "filtered"
    /\ IF ~Empty(filtered_data)
       THEN /\ summary' = Summarize(filtered_data)
            /\ screen' = screen \o <<"header", "markdown", "write", "dataframe",
                                     "subheader", "metric", "metric", "metric">>
       ELSE /\ summary' = summary
            /\ screen' = screen \o <<"header", "markdown", "write", "dataframe">>
    /\ pc' = "idle"
    /\ UNCHANGED <<file, cache, reads, runs, changes, store_data,
                   region_options, category_options, chosen_region,
                   chosen_category, filtered_data>>

\* between two runs the file is deleted
FileDeleted ==
    /\ pc = "idle"
    /\ changes < MaxChanges
    /\ file # NotFound
    /\ file' = NotFound
    /\ changes' = changes + 1
    /\ UNCHANGED <<cache, reads, runs, pc, store_data, scriptVars, screen>>

\* between two runs the file is rewritten without its first line
FileTruncated ==
    /\ pc = "idle"
    /\ changes < MaxChanges
    /\ file # NotFound
    /\ file.rows # <<>>
    /\ file' = CsvFile(Tail(file.rows))
    /\ changes' = changes + 1
    /\ UNCHANGED <<cache, reads, runs, pc, store_data, scriptVars, screen>>

\* between two runs a file appears at the path
FileCreated ==
    /\ pc = "idle"
    /\ changes < MaxChanges
    /\ file = NotFound
    /\ file' = CsvFile(<<WestRow, EastRow>>)
    /\ changes' = changes + 1
    /\ UNCHANGED <<cache, reads, runs, pc, store_data, scriptVars, screen>>

Next ==
    \/ GetDataCached
    \/ GetDataRead
    \/ GetDataNotFound
    \/ LoadFailed
    \/ BuildFilters
    \/ ApplyFilters
    \/ DisplayResults
    \/ FileDeleted
    \/ FileTruncated
    \/ FileCreated

Spec == Init /\ [][Next]_vars

-----------------------------------------------------------------------------
(* Properties *)

\* the rows a selection asks for
Selected(row) ==
    /\ chosen_region = All \/ row.Region = chosen_region
    /\ chosen_category = All \/ row.Category = chosen_category

\* the sum of a whole-number column over the rows at the positions I
RECURSIVE TotalOver(_, _, _)
TotalOver(rows, col, I) ==
    IF I = {} THEN 0
    ELSE LET i == CHOOSE j \in I : TRUE
         IN  rows[i][col] + TotalOver(rows, col, I \ {i})

\* the sum of a rational column over the rows at the positions I
RECURSIVE RatTotalOver(_, _, _)
RatTotalOver(rows, col, I) ==
    IF I = {} THEN <<0, 1>>
    ELSE LET i == CHOOSE j \in I : TRUE
         IN  RatAdd(rows[i][col], RatTotalOver(rows, col, I \ {i}))

\* s holds the three aggregates of the non-empty rows
IsSummaryOf(s, rows) ==
    /\ s # Unset
    /\ s.sum_sales = TotalOver(rows, "Sales", DOMAIN rows)
    /\ s.sum_profit = TotalOver(rows, "Profit", DOMAIN rows)
    /\ s.avg_discount_perc # NaN
    /\ RatMulInt(s.avg_discount_perc, Len(rows))
          = RatMulInt(RatTotalOver(rows, "Discount", DOMAIN rows), 100)

Displayed == pc = "idle" /\ filtered_data # Unset

\* C1: the filtered subset is exactly the rows of the table that the
\* selection asks for (Region equal to the chosen region unless it is "All",
\* Category equal to the chosen category unless it is "All", compared
\* exactly), in the table's order: every kept row is a row of the table that
\* matches, the kept rows are in increasing table position, and every
\* matching row of the table is kept.
C1_FilterExact ==
    filtered_data # Unset =>
        LET T == store_data.rows
            F == filtered_data.rows
        IN  /\ \A i \in 1..Len(F) :
                 /\ F[i].idx + 1 \in 1..Len(T)
                 /\ F[i] = T[F[i].idx + 1]
                 /\ Selected(F[i])
            /\ \A i, j \in 1..Len(F) : i < j => F[i].idx < F[j].idx
            /\ \A k \in 1..Len(T) :
                 Selected(T[k]) => \E i \in 1..Len(F) : F[i] = T[k]

\* a West selection over West, west, West keeps positions 0 and 2
C1_Witness ==
    /\ filtered_data # Unset
    /\ chosen_region = "West"
    /\ Len(store_data.rows) = 3
    /\ store_data.rows[2].Region = "west"
    /\ Len(filtered_data.rows) = 2
    /\ filtered_data.rows[1].idx = 0
    /\ filtered_data.rows[2].idx = 2

\* the table of the documented scenario
ScenarioTable == DataFrame(read_csv(<<WestRow, EastRow>>))

\* C2: when the filtered subset has rows, the summary holds the sum of
\* Sales, the sum of Profit and 100 times the mean of Discount over the
\* subset; for the scenario table and the selection West / All the subset is
\* the first row and the summary is 100, 10 and 10.
C2_Summary ==
    (Displayed /\ filtered_data.rows # <<>>) =>
        /\ IsSummaryOf(summary, filtered_data.rows)
        /\ (store_data = ScenarioTable /\ chosen_region = "West"
              /\ chosen_category = All) =>
               /\ filtered_data.rows = <<ScenarioTable.rows[1]>>
               /\ summary.sum_sales = 100
               /\ summary.sum_profit = 10
               /\ summary.avg_discount_perc = <<10, 1>>

\* the scenario has been displayed
C2_Witness ==
    /\ Displayed
    /\ store_data = ScenarioTable
    /\ chosen_region = "West"
    /\ chosen_category = All
    /\ summary # Unset

\* C3: the three summary numbers exist exactly when a run has displayed a
\* filtered subset with at least one row; an empty subset leaves them absent.
C3_SummaryIffRows ==
    /\ (summary # Unset) <=> (Displayed /\ Len(filtered_data.rows) > 0)
    /\ (\E i \in 1..Len(screen) : screen[i] = "metric") <=> (summary # Unset)

\* a run over a table with rows has displayed an empty subset
C3_Witness ==
    /\ Displayed
    /\ store_data.rows # <<>>
    /\ filtered_data.rows = <<>>
    /\ summary = Unset

\* C4: with the selection All / All the subset is the whole table, same rows
\* in the same order, and the summary is that of the whole table (absent for
\* a table without rows).
C4_AllAllPassthrough ==
    (filtered_data # Unset /\ chosen_region = All /\ chosen_category = All) =>
        /\ filtered_data.rows = store_data.rows
        /\ pc = "idle" =>
              IF store_data.rows = <<>> THEN summary = Unset
              ELSE IsSummaryOf(summary, store_data.rows)

\* All / All displayed over a table of three rows
C4_Witness ==
    /\ Displayed
    /\ chosen_region = All
    /\ chosen_category = All
    /\ Len(store_data.rows) = 3
    /\ summary # Unset

\* C5: the subset the code computes, Region step then Category step, is the
\* subset of the Category step followed by the Region step.
C5_OrderIndependent ==
    filtered_data # Unset =>
        filtered_data = AfterRegion(AfterCategory(Copy(store_data), chosen_category),
                                    chosen_region)

\* both steps drop rows, different ones, and rows remain
C5_Witness ==
    /\ filtered_data # Unset
    /\ chosen_region # All
    /\ chosen_category # All
    /\ filtered_data.rows # <<>>
    /\ AfterRegion(store_data, chosen_region) # AfterCategory(store_data, chosen_category)
    /\ Len(AfterRegion(store_data, chosen_region).rows) < Len(store_data.rows)
    /\ Len(AfterCategory(store_data, chosen_category).rows) < Len(store_data.rows)
    /\ Len(filtered_data.rows) < Len(AfterRegion(store_data, chosen_region).rows)
    /\ Len(filtered_data.rows) < Len(AfterCategory(store_data, chosen_category).rows)

DashboardElements ==
    {"sidebar.header", "selectbox", "header", "markdown", "dataframe",
     "subheader", "metric"}

C7_ReadOnce ==
    /\ [](reads <= 1)
    /\ [][(file_path \in DOMAIN cache) =>
            /\ reads' = reads
            /\ cache' = cache
            /\ (pc = "idle" /\ pc' = "loaded") => store_data' = cache[file_path]]_vars

\* a second run has loaded the stored table although the file now differs
C7_Witness ==
    /\ runs = 2
    /\ pc = "loaded"
    /\ reads = 1
    /\ store_data # None
    /\ file # NotFound
    /\ get_data(file) # store_data

\* C8: at every point of every run the loaded table store_data is the table
\* as loaded: the stored result of the load, its rows at their positions.
C8_TableNotMutated ==
    store_data # Unset =>
        /\ store_data = cache[file_path]
        /\ store_data # None =>
              \A i \in 1..Len(store_data.rows) : store_data.rows[i].idx = i - 1

\* a second run has filtered rows away
C8_Witness ==
    /\ Displayed
    /\ runs = 2
    /\ filtered_data.rows # <<>>
    /\ Len(filtered_data.rows) < Len(store_data.rows)

DiscountsInRange(rows) ==
    \A i \in 1..Len(rows) :
        RatLeq(<<0, 1>>, rows[i].Discount) /\ RatLeq(rows[i].Discount, <<1, 1>>)

\* C9: a computed average discount lies between 0 and 100 when every
\* Discount of the table lies between 0 and 1.
C9_AvgDiscountRange ==
    (summary # Unset /\ DiscountsInRange(store_data.rows)) =>
        /\ summary.avg_discount_perc # NaN
        /\ RatLeq(<<0, 1>>, summary.avg_discount_perc)
        /\ RatLeq(summary.avg_discount_perc, <<100, 1>>)

\* several rows with discounts in range, one of them 1, averaged
C9_Witness ==
    /\ summary # Unset
    /\ DiscountsInRange(store_data.rows)
    /\ Len(filtered_data.rows) >= 2
    /\ \E i \in 1..Len(filtered_data.rows) : filtered_data.rows[i].Discount = <<1, 1>>
    /\ summary.avg_discount_perc # <<100, 1>>

Occurs(rows, col, v) == \E i \in 1..Len(rows) : rows[i][col] = v

\* C10: a chosen value is "All" or a value of the table's column; over a
\* table with rows a selection with at most one filter set leaves rows and a
\* summary is shown; an empty subset needs an empty table or both filters
\* set to a pair no row has.
C10_SelectionsFromTable ==
    /\ chosen_region # UnsetStr =>
          chosen_region = All \/ Occurs(store_data.rows, "Region", chosen_region)
    /\ chosen_category # UnsetStr =>
          chosen_category = All \/ Occurs(store_data.rows, "Category", chosen_category)
    /\ filtered_data # Unset =>
          /\ (store_data.rows # <<>> /\ (chosen_region = All \/ chosen_category = All)) =>
                /\ filtered_data.rows # <<>>
                /\ pc = "idle" => summary # Unset
          /\ filtered_data.rows = <<>> =>
                \/ store_data.rows = <<>>
                \/ /\ chosen_region # All
                   /\ chosen_category # All
                   /\ ~\E i \in 1..Len(store_data.rows) :
                         /\ store_data.rows[i].Region = chosen_region
                         /\ store_data.rows[i].Category = chosen_category

\* both filters set to values of the table that no row combines
C10_Witness ==
    /\ Displayed
    /\ store_data.rows # <<>>
    /\ filtered_data.rows = <<>>
    /\ Occurs(store_data.rows, "Region", chosen_region)
    /\ Occurs(store_data.rows, "Category", chosen_category)

=============================================================================
